---- MODULE Spec2Model ----
(***************************************************************************)
(* Command handlers of the ReX math parser (src/src/functions.rs): the     *)
(* static command table, the dispatch Command::parse and the twelve        *)
(* handlers, run against a token-level lexer.                              *)
(*                                                                         *)
(* The lexer (crate::lexer) and the grammar primitives (crate::parser::    *)
(* engine) are not part of the sources at hand; they are modelled from the *)
(* design document (sections 4.1 and 4.3).                                 *)
(***************************************************************************)
EXTENDS Integers, Sequences, FiniteSets, TLC

\* ------------------------------------------------------------------ bounds
\* Longest token stream handed to \substack.
MaxStackLen == 6
\* Longest token stream handed to a command that parses arguments.
MaxArgLen == 4
\* Longest token stream handed to a command that reads at most one token.
MaxIdleLen == 2
\* Longest token stream \substack is run to completion on, token by token.
MaxFeedLen == 5
\* Most Backend calls made on one SceneWrapper.
MaxCalls == 5

VARIABLES
    command,    \* the Command value being dispatched (self in Command::parse)
    input,      \* the lexer's token stream
    pos,        \* index of lex.current in input; past the end it is EOF
    pc,         \* "idle", "dispatch", "loop" (inside substack's loop), "done"
    lines,      \* substack's local `lines`
    status,     \* "running", "ok" (Ok(node)), "err" (Err(e)), "panic"
    node,       \* the ParseNode returned when status = "ok"
    error,      \* the ParseError returned when status = "err"
    handler,    \* history: name of the handler Command::parse called
    parsed,     \* history: the results of the argument parses, in call order
    sites,      \* history: lexer position at the start of each argument parse
    scene,      \* SceneWrapper.scene: the Scene's paints and draw paths
    color_stack,\* SceneWrapper.color_stack
    paint,      \* SceneWrapper.paint
    rendering,  \* "running", or "panic" once a Backend call has panicked
    calls       \* history: the Backend calls made, with paint and
                \* color_stack before and after each

parserVars == <<command, input, pos, pc, lines, status, node, error, handler, parsed, sites>>

sceneVars == <<scene, color_stack, paint, rendering, calls>>

vars == <<parserVars, sceneVars>>

\* ------------------------------------------------------------------ helpers
RECURSIVE SeqsUpTo(_, _)
SeqsUpTo(S, n) ==
    IF n = 0 THEN {<<>>}
    ELSE LET shorter == SeqsUpTo(S, n - 1)
         IN  shorter \cup {Append(s, x) : s \in {t \in shorter : Len(t) = n - 1}, x \in S}

Last(s) == s[Len(s)]
Front(s) == SubSeq(s, 1, Len(s) - 1)

\* ------------------------------------------------------------------ lexer
EOF == "EOF"
\* Token::Command(r"\"), the row separator.
RowSep == "\\\\"
WhiteSpace == " "
Number == "1"
Units == {"em", "px"}

\* lex.current
Current(toks, p) == IF p <= Len(toks) THEN toks[p] ELSE EOF

\* lex.next(): advances by one token; at end of input the lexer stays at EOF.
LexNext(toks, p) == IF p <= Len(toks) THEN p + 1 ELSE p

\* lex.consume_whitespace()
RECURSIVE consume_whitespace(_, _)
consume_whitespace(toks, p) ==
    IF Current(toks, p) = WhiteSpace THEN consume_whitespace(toks, p + 1) ELSE p

\* lex.dimension(): Ok(None) when the input does not begin with a number, an
\* error when the number has a missing or unrecognized unit suffix.
dimension(toks, p) ==
    IF Current(toks, p) # Number
    THEN [kind |-> "None", unit |-> "", pos |-> p]
    ELSE IF Current(toks, p + 1) \in Units
         THEN [kind |-> "Some", unit |-> Current(toks, p + 1), pos |-> p + 2]
         ELSE [kind |-> "Err", unit |-> "", pos |-> p + 1]

\* ------------------------------------------------------------------ nodes
OperatorAT(limits) == IF limits THEN "Operator(true)" ELSE "Operator(false)"

\* The codepoint of an input character, as written.
Codepoint(c) == <<c>>
Symbol(c, at) == [codepoint |-> c, atom_type |-> at]
SymbolNode(sym) == [type |-> "Symbol", symbol |-> sym]
GroupNode(inner) == [type |-> "Group", inner |-> inner]
NoNode == [type |-> "None"]

Em(n, d) == [unit |-> "Em", num |-> n, den |-> d]

\* crate::parser::symbols: the AtomType a symbol character resolves to.
SymbolChars == {"a", "b", "(", ")", "=", "/", "+"}
AtomTypeOf(c) ==
    CASE c = "(" -> "Open"
      [] c = ")" -> "Close"
      [] c = "=" -> "Relation"
      [] c = "/" -> "Ordinal"
      [] c = "+" -> "Binary"
      [] OTHER   -> "Alpha"

\* Result of a grammar primitive: Ok(value) with the lexer at pos, or Err(e).
POk(v, p) == [ok |-> TRUE, value |-> v, err |-> "", pos |-> p]
PErr(e, p) == [ok |-> FALSE, value |-> <<>>, err |-> e, pos |-> p]

\* ------------------------------------------------------------------ parser
ExpressionEnd == {"}", EOF, RowSep}

\* The loop of parse::expression with its nesting made explicit: acc holds
\* the nodes of the group being read, outer the nodes read so far in each
\* enclosing group, innermost last.
RECURSIVE expression_in(_, _, _, _)
expression_in(toks, p0, acc, outer) ==
    LET p == consume_whitespace(toks, p0)
        cur == Current(toks, p)
    IN  IF cur \in ExpressionEnd
        THEN IF outer = <<>> THEN POk(acc, p)
             ELSE IF cur = "}"
             THEN expression_in(toks, p + 1, Append(Last(outer), GroupNode(acc)), Front(outer))
             ELSE PErr("NoClosingBracket", p)
        ELSE IF cur = "{" THEN expression_in(toks, p + 1, <<>>, Append(outer, acc))
        ELSE IF cur \in SymbolChars
        THEN expression_in(toks, p + 1,
                           Append(acc, SymbolNode(Symbol(Codepoint(cur), AtomTypeOf(cur)))),
                           outer)
        ELSE PErr("UnrecognizedSymbol", p)

\* parse::expression: a maximal sequence of atoms up to a terminator (closing
\* brace, end of input or row separator), honoring nested groups.
expression(toks, p) == expression_in(toks, p, <<>>, <<>>)

\* parse::required_argument: one balanced group or one atom.
required_argument(toks, p0) ==
    LET p == consume_whitespace(toks, p0)
        cur == Current(toks, p)
    IN  IF cur = "{"
        THEN LET inner == expression(toks, p + 1)
             IN  IF ~inner.ok THEN inner
                 ELSE IF Current(toks, inner.pos) # "}"
                 THEN PErr("NoClosingBracket", inner.pos)
                 ELSE POk(inner.value, inner.pos + 1)
        ELSE IF cur \in SymbolChars
        THEN POk(<<SymbolNode(Symbol(Codepoint(cur), AtomTypeOf(cur)))>>, p + 1)
        ELSE IF cur = EOF THEN PErr("RequiredMacroArg", p)
        ELSE PErr("ExpectedOpenGroup", p)

\* parse::symbol: Some(Symbol) when the current token is a symbol, else None.
symbol(toks, p) ==
    IF Current(toks, p) \in SymbolChars
    THEN POk(<<SymbolNode(Symbol(Codepoint(Current(toks, p)), AtomTypeOf(Current(toks, p))))>>, p + 1)
    ELSE POk(<<>>, p)

\* parse::dimension: a required dimension literal.
parse_dimension(toks, p) ==
    LET d == dimension(toks, p)
    IN  IF d.kind = "Some" THEN POk(<<d.unit>>, d.pos)
        ELSE PErr("UnrecognizedDimension", d.pos)

\* parse::color: a color specification.
ColorSpecs == {"#f00"}
RGBAOf(c) == <<255, 0, 0, 255>>
parse_color(toks, p) ==
    IF Current(toks, p) \in ColorSpecs
    THEN POk(<<RGBAOf(Current(toks, p))>>, p + 1)
    ELSE PErr("UnrecognizedColor", p)

\* The narrower grammars required_argument_with is called with.
Subgrammar(f, toks, p) ==
    CASE f = "symbol"    -> symbol(toks, p)
      [] f = "dimension" -> parse_dimension(toks, p)
      [] f = "color"     -> parse_color(toks, p)

\* parse::required_argument_with: a braced group whose content is parsed by f.
required_argument_with(toks, p0, f) ==
    LET p == consume_whitespace(toks, p0)
    IN  IF Current(toks, p) # "{" THEN PErr("RequiredMacroArg", p)
        ELSE LET r == Subgrammar(f, toks, consume_whitespace(toks, p + 1))
                 q == consume_whitespace(toks, r.pos)
             IN  IF ~r.ok THEN r
                 ELSE IF Current(toks, q) # "}" THEN PErr("NoClosingBracket", q)
                 ELSE POk(r.value, q + 1)

\* parse::expect_type: one required symbol whose resolved AtomType must be
\* the expected class.
expect_type(toks, p, expected) ==
    LET s == symbol(toks, p)
    IN  IF s.value = <<>> THEN PErr("ExpectedSymbol", p)
        ELSE IF s.value[1].symbol.atom_type = expected
        THEN POk(<<s.value[1].symbol>>, s.pos)
        ELSE PErr("ExpectedAtomType", s.pos)

\* ------------------------------------------------------------------ commands
\* enum Command
Radical == [variant |-> "Radical"]
Rule == [variant |-> "Rule"]
VExtend == [variant |-> "VExtend"]
Color == [variant |-> "Color"]
ColorLit(rgba) == [variant |-> "ColorLit", color |-> rgba]
Fraction(l, r, bar, st) ==
    [variant |-> "Fraction", left_delimiter |-> l, right_delimiter |-> r,
     bar_thickness |-> bar, style |-> st]
DelimiterSize(size, at) == [variant |-> "DelimiterSize", size |-> size, atom_type |-> at]
Kerning(unit) == [variant |-> "Kerning", unit |-> unit]
Style(st) == [variant |-> "Style", style |-> st]
AtomChange(at) == [variant |-> "AtomChange", at |-> at]
TextOperator(text, limits) == [variant |-> "TextOperator", text |-> text, limits |-> limits]
SubStack(at) == [variant |-> "SubStack", atom_type |-> at]

\* The names get_command knows; every other name gives None.
CommandNames ==
    {
     "frac", "tfrac", "dfrac", "binom", "tbinom", "dbinom", "substack", "sqrt",
     "bigl", "Bigl", "biggl", "Biggl", "bigr", "Bigr", "biggr", "Biggr", "bigm",
     "Bigm", "biggm", "Biggm", "big", "Big", "bigg", "Bigg", "!", ",", ":", ";", " ",
     "quad", "qquad", "rule", "vextend", "textstyle", "displaystyle", "scriptstyle",
     "scriptscriptstyle", "mathop", "mathrel", "mathord", "color", "blue", "red",
     "gray", "phantom", "det", "gcd", "lim", "limsup", "liminf", "sup", "supp",
     "inf", "max", "min", "Pr", "sin", "cos", "tan", "cot", "csc", "sec", "arcsin",
     "arccos", "arctan", "sinh", "cosh", "tanh", "arg", "deg", "dim", "exp", "hom",
     "Hom", "ker", "Ker", "ln", "log"
    }

\* get_command(name), for a name of the table.
get_command(name) ==
    CASE name = "frac" -> Fraction(<<>>, <<>>, "Default", "NoChange")
      [] name = "tfrac" -> Fraction(<<>>, <<>>, "Default", "Text")
      [] name = "dfrac" -> Fraction(<<>>, <<>>, "Default", "Display")
      [] name = "binom" -> Fraction(<<Symbol(Codepoint("("), "Open")>>, <<Symbol(Codepoint(")"), "Close")>>, "None", "NoChange")
      [] name = "tbinom" -> Fraction(<<Symbol(Codepoint("("), "Open")>>, <<Symbol(Codepoint(")"), "Close")>>, "None", "Text")
      [] name = "dbinom" -> Fraction(<<Symbol(Codepoint("("), "Open")>>, <<Symbol(Codepoint(")"), "Close")>>, "None", "Display")
      [] name = "substack" -> SubStack("Inner")
      [] name = "sqrt" -> Radical
      [] name = "bigl" -> DelimiterSize(1, "Open")
      [] name = "Bigl" -> DelimiterSize(2, "Open")
      [] name = "biggl" -> DelimiterSize(3, "Open")
      [] name = "Biggl" -> DelimiterSize(4, "Open")
      [] name = "bigr" -> DelimiterSize(1, "Close")
      [] name = "Bigr" -> DelimiterSize(2, "Close")
      [] name = "biggr" -> DelimiterSize(3, "Close")
      [] name = "Biggr" -> DelimiterSize(4, "Close")
      [] name = "bigm" -> DelimiterSize(1, "Relation")
      [] name = "Bigm" -> DelimiterSize(2, "Relation")
      [] name = "biggm" -> DelimiterSize(3, "Relation")
      [] name = "Biggm" -> DelimiterSize(4, "Relation")
      [] name = "big" -> DelimiterSize(1, "Ordinal")
      [] name = "Big" -> DelimiterSize(2, "Ordinal")
      [] name = "bigg" -> DelimiterSize(3, "Ordinal")
      [] name = "Bigg" -> DelimiterSize(4, "Ordinal")
      [] name = "!" -> Kerning(Em(-3, 18))
      [] name = "," -> Kerning(Em(3, 18))
      [] name = ":" -> Kerning(Em(4, 18))
      [] name = ";" -> Kerning(Em(5, 18))
      [] name = " " -> Kerning(Em(1, 4))
      [] name = "quad" -> Kerning(Em(1, 1))
      [] name = "qquad" -> Kerning(Em(2, 1))
      [] name = "rule" -> Rule
      [] name = "vextend" -> VExtend
      [] name = "textstyle" -> Style("Text")
      [] name = "displaystyle" -> Style("Display")
      [] name = "scriptstyle" -> Style("Script")
      [] name = "scriptscriptstyle" -> Style("ScriptScript")
      [] name = "mathop" -> AtomChange(OperatorAT(FALSE))
      [] name = "mathrel" -> AtomChange("Relation")
      [] name = "mathord" -> AtomChange("Alpha")
      [] name = "color" -> Color
      [] name = "blue" -> ColorLit(<<0, 0, 255, 255>>)
      [] name = "red" -> ColorLit(<<255, 0, 0, 255>>)
      [] name = "gray" -> ColorLit(<<128, 128, 128, 255>>)
      [] name = "phantom" -> ColorLit(<<0, 0, 0, 0>>)
      [] name = "det" -> TextOperator(<<"d", "e", "t">>, TRUE)
      [] name = "gcd" -> TextOperator(<<"g", "c", "d">>, TRUE)
      [] name = "lim" -> TextOperator(<<"l", "i", "m">>, TRUE)
      [] name = "limsup" -> TextOperator(<<"l", "i", "m", ",", "s", "u", "p">>, TRUE)
      [] name = "liminf" -> TextOperator(<<"l", "i", "m", ",", "i", "n", "f">>, TRUE)
      [] name = "sup" -> TextOperator(<<"s", "u", "p">>, TRUE)
      [] name = "supp" -> TextOperator(<<"s", "u", "p", "p">>, TRUE)
      [] name = "inf" -> TextOperator(<<"i", "n", "f">>, TRUE)
      [] name = "max" -> TextOperator(<<"m", "a", "x">>, TRUE)
      [] name = "min" -> TextOperator(<<"m", "i", "n">>, TRUE)
      [] name = "Pr" -> TextOperator(<<"P", "r">>, TRUE)
      [] name = "sin" -> TextOperator(<<"s", "i", "n">>, FALSE)
      [] name = "cos" -> TextOperator(<<"c", "o", "s">>, FALSE)
      [] name = "tan" -> TextOperator(<<"t", "a", "n">>, FALSE)
      [] name = "cot" -> TextOperator(<<"c", "o", "t">>, FALSE)
      [] name = "csc" -> TextOperator(<<"c", "s", "c">>, FALSE)
      [] name = "sec" -> TextOperator(<<"s", "e", "c">>, FALSE)
      [] name = "arcsin" -> TextOperator(<<"a", "r", "c", "s", "i", "n">>, FALSE)
      [] name = "arccos" -> TextOperator(<<"a", "r", "c", "c", "o", "s">>, FALSE)
      [] name = "arctan" -> TextOperator(<<"a", "r", "c", "t", "a", "n">>, FALSE)
      [] name = "sinh" -> TextOperator(<<"s", "i", "n", "h">>, FALSE)
      [] name = "cosh" -> TextOperator(<<"c", "o", "s", "h">>, FALSE)
      [] name = "tanh" -> TextOperator(<<"t", "a", "n", "h">>, FALSE)
      [] name = "arg" -> TextOperator(<<"a", "r", "g">>, FALSE)
      [] name = "deg" -> TextOperator(<<"d", "e", "g">>, FALSE)
      [] name = "dim" -> TextOperator(<<"d", "i", "m">>, FALSE)
      [] name = "exp" -> TextOperator(<<"e", "x", "p">>, FALSE)
      [] name = "hom" -> TextOperator(<<"h", "o", "m">>, FALSE)
      [] name = "Hom" -> TextOperator(<<"H", "o", "m">>, FALSE)
      [] name = "ker" -> TextOperator(<<"k", "e", "r">>, FALSE)
      [] name = "Ker" -> TextOperator(<<"K", "e", "r">>, FALSE)
      [] name = "ln" -> TextOperator(<<"l", "n">>, FALSE)
      [] name = "log" -> TextOperator(<<"l", "o", "g">>, FALSE)

Table == {get_command(n) : n \in CommandNames}

\* ------------------------------------------------------------------ nodes built
RadicalNode(inner) == [type |-> "Radical", inner |-> inner]
RuleNode(width, height) == [type |-> "Rule", width |-> width, height |-> height]
ExtendNode(codepoint, height) == [type |-> "Extend", codepoint |-> codepoint, height |-> height]
ColorNode(rgba, inner) == [type |-> "Color", color |-> rgba, inner |-> inner]
GenFractionNode(l, r, bar, num, den, st) ==
    [type |-> "GenFraction", left_delimiter |-> l, right_delimiter |-> r,
     bar_thickness |-> bar, numerator |-> num, denominator |-> den, style |-> st]
KerningNode(unit) == [type |-> "Kerning", unit |-> unit]
StyleNode(st) == [type |-> "Style", style |-> st]
AtomChangeNode(at, inner) == [type |-> "AtomChange", at |-> at, inner |-> inner]
StackNode(at, rows) == [type |-> "Stack", atom_type |-> at, lines |-> rows]

\* What a handler leaves behind: Ok(node), Err(error) or a panic, the lexer
\* position, the values of the arguments it parsed and the position at which
\* each argument parse started.
HOk(n, p, args, at) ==
    [status |-> "ok", node |-> n, error |-> "", pos |-> p, parsed |-> args, sites |-> at]
HErr(e, p, args, at) ==
    [status |-> "err", node |-> NoNode, error |-> e, pos |-> p, parsed |-> args, sites |-> at]
HPanic(p, args, at) ==
    [status |-> "panic", node |-> NoNode, error |-> "", pos |-> p, parsed |-> args, sites |-> at]

\* ------------------------------------------------------------------ handlers
radical(toks, p) ==
    LET inner == required_argument(toks, p)
    IN  IF ~inner.ok THEN HErr(inner.err, inner.pos, <<>>, <<p>>)
        ELSE HOk(RadicalNode(inner.value), inner.pos, <<inner.value>>, <<p>>)

rule(toks, p) ==
    LET p1 == consume_whitespace(toks, p)
        width == dimension(toks, p1)
        p2 == consume_whitespace(toks, width.pos)
        height == dimension(toks, p2)
    IN  IF width.kind = "Err" THEN HErr("UnrecognizedDimension", width.pos, <<>>, <<p1>>)
        ELSE IF width.kind = "None" THEN HPanic(width.pos, <<>>, <<p1>>)
        ELSE IF height.kind = "Err"
        THEN HErr("UnrecognizedDimension", height.pos, <<<<width.unit>>>>, <<p1, p2>>)
        ELSE IF height.kind = "None" THEN HPanic(height.pos, <<<<width.unit>>>>, <<p1, p2>>)
        ELSE HOk(RuleNode(width.unit, height.unit), height.pos,
                 <<<<width.unit>>, <<height.unit>>>>, <<p1, p2>>)

v_extend(toks, p) ==
    LET arg == required_argument_with(toks, p, "symbol")
        height == required_argument_with(toks, arg.pos, "dimension")
    IN  IF ~arg.ok THEN HErr(arg.err, arg.pos, <<>>, <<p>>)
        ELSE IF arg.value = <<>> THEN HErr("ExpectedOpenGroup", arg.pos, <<arg.value>>, <<p>>)
        ELSE IF ~height.ok THEN HErr(height.err, height.pos, <<arg.value>>, <<p, arg.pos>>)
        ELSE HOk(ExtendNode(arg.value[1].symbol.codepoint, height.value[1]), height.pos,
                 <<arg.value, height.value>>, <<p, arg.pos>>)

color(toks, p) ==
    LET col == required_argument_with(toks, p, "color")
        inner == required_argument(toks, col.pos)
    IN  IF ~col.ok THEN HErr(col.err, col.pos, <<>>, <<p>>)
        ELSE IF ~inner.ok THEN HErr(inner.err, inner.pos, <<col.value>>, <<p, col.pos>>)
        ELSE HOk(ColorNode(col.value[1], inner.value), inner.pos,
                 <<col.value, inner.value>>, <<p, col.pos>>)

color_lit(toks, p, rgba) ==
    LET inner == required_argument(toks, p)
    IN  IF ~inner.ok THEN HErr(inner.err, inner.pos, <<>>, <<p>>)
        ELSE HOk(ColorNode(rgba, inner.value), inner.pos, <<inner.value>>, <<p>>)

\* fraction with numerator and denominator exchanged in the node.
fraction_swapped(toks, p, left_delimiter, right_delimiter, bar_thickness, style) ==
    LET numerator == required_argument(toks, p)
        denominator == required_argument(toks, numerator.pos)
    IN  IF ~numerator.ok THEN HErr(numerator.err, numerator.pos, <<>>, <<p>>)
        ELSE IF ~denominator.ok
        THEN HErr(denominator.err, denominator.pos, <<numerator.value>>, <<p, numerator.pos>>)
        ELSE HOk(GenFractionNode(left_delimiter, right_delimiter, bar_thickness,
                                 denominator.value, numerator.value, style),
                 denominator.pos, <<numerator.value, denominator.value>>,
                 <<p, numerator.pos>>)

fraction(toks, p, left_delimiter, right_delimiter, bar_thickness, style) ==
    LET numerator == required_argument(toks, p)
        denominator == required_argument(toks, numerator.pos)
    IN  IF ~numerator.ok THEN HErr(numerator.err, numerator.pos, <<>>, <<p>>)
        ELSE IF ~denominator.ok
        THEN HErr(denominator.err, denominator.pos, <<numerator.value>>, <<p, numerator.pos>>)
        ELSE HOk(GenFractionNode(left_delimiter, right_delimiter, bar_thickness,
                                 numerator.value, denominator.value, style),
                 denominator.pos, <<numerator.value, denominator.value>>,
                 <<p, numerator.pos>>)

\* delimiter_size taking any symbol, without the check of its AtomType.
delimiter_size_unchecked(toks, p, size, atom_type) ==
    LET sym == symbol(toks, p)
    IN  IF sym.value = <<>> THEN HErr("ExpectedSymbol", p, <<>>, <<p>>)
        ELSE HOk(SymbolNode(sym.value[1].symbol), sym.pos, <<sym.value>>, <<p>>)

\* The size class (the u8) is bound to `_` and dropped.
delimiter_size(toks, p, size, atom_type) ==
    LET sym == expect_type(toks, p, atom_type)
    IN  IF ~sym.ok THEN HErr(sym.err, sym.pos, <<>>, <<p>>)
        ELSE HOk(SymbolNode(sym.value[1]), sym.pos, <<sym.value>>, <<p>>)

\* kerning consuming the token that follows the command.
kerning_advancing(toks, p, unit) == HOk(KerningNode(unit), LexNext(toks, p), <<>>, <<>>)

kerning(toks, p, unit) == HOk(KerningNode(unit), p, <<>>, <<>>)

style(toks, p, new_style) == HOk(StyleNode(new_style), p, <<>>, <<>>)

atom_change(toks, p, at) ==
    LET inner == required_argument(toks, p)
    IN  IF ~inner.ok THEN HErr(inner.err, inner.pos, <<>>, <<p>>)
        ELSE HOk(AtomChangeNode(at, inner.value), inner.pos, <<inner.value>>, <<p>>)

SMALL_SKIP == Em(3, 18)

\* font::style_symbol(c, Roman, no weight): the codepoint of c in that style.
style_symbol(c) == <<"Roman", "None", c>>

\* text_operator's loop dropping the separator instead of pushing a kerning.
RECURSIVE text_operator_inner_skip(_)
text_operator_inner_skip(text) ==
    IF text = <<>> THEN <<>>
    ELSE LET c == Head(text)
         IN  (IF c = ","
              THEN <<>>
              ELSE <<SymbolNode(Symbol(style_symbol(c), "Ordinal"))>>)
             \o text_operator_inner_skip(Tail(text))

\* The loop of text_operator over text.chars().
RECURSIVE text_operator_inner(_)
text_operator_inner(text) ==
    IF text = <<>> THEN <<>>
    ELSE LET c == Head(text)
         IN  <<IF c = ","
               THEN KerningNode(SMALL_SKIP)
               ELSE SymbolNode(Symbol(style_symbol(c), "Ordinal"))>>
             \o text_operator_inner(Tail(text))

text_operator(toks, p, text, limits) ==
    HOk(AtomChangeNode(OperatorAT(limits), text_operator_inner(text)), p, <<>>, <<>>)

\* ------------------------------------------------------------------ substack
\* substack's match leaving the loop on every token but the separator.
substack_match_lenient(cur) == IF cur = RowSep THEN "next" ELSE "break"

\* substack's match iterating again on every token but the closing brace.
substack_match_spin(cur) == IF cur = "}" THEN "break" ELSE "next"

\* The match on lex.current after a row: break, advance past the separator,
\* or fail.
substack_match(cur) ==
    CASE cur = "}"    -> "break"
      [] cur = RowSep -> "next"
      [] OTHER        -> "Todo"

\* substack_trim removing every trailing empty line.
RECURSIVE substack_trim_all(_)
substack_trim_all(ls) ==
    IF ls # <<>> /\ Last(ls) = <<>> THEN substack_trim_all(Front(ls)) ELSE ls

\* substack_trim removing nothing.
substack_trim_none(ls) == ls

\* Remove the last line if it's empty.
substack_trim(ls) ==
    IF ls # <<>> /\ Last(ls) = <<>> THEN Front(ls) ELSE ls

\* ------------------------------------------------------------------ dispatch
\* Command::parse: the handler each variant is matched to.
CommandParse(cmd) ==
    CASE cmd.variant = "Radical"       -> "radical"
      [] cmd.variant = "Rule"          -> "rule"
      [] cmd.variant = "VExtend"       -> "v_extend"
      [] cmd.variant = "Color"         -> "color"
      [] cmd.variant = "ColorLit"      -> "color_lit"
      [] cmd.variant = "Fraction"      -> "fraction"
      [] cmd.variant = "DelimiterSize" -> "delimiter_size"
      [] cmd.variant = "Kerning"       -> "kerning"
      [] cmd.variant = "Style"         -> "style"
      [] cmd.variant = "AtomChange"    -> "atom_change"
      [] cmd.variant = "TextOperator"  -> "text_operator"
      [] cmd.variant = "SubStack"      -> "substack"

\* The handler h returns r to the caller of Command::parse.
Return(h, r) ==
    /\ status' = r.status
    /\ node' = r.node
    /\ error' = r.error
    /\ pos' = r.pos
    /\ parsed' = r.parsed
    /\ sites' = r.sites
    /\ handler' = h
    /\ pc' = "done"
    /\ UNCHANGED <<command, input, lines, sceneVars>>

Dispatched(h) == pc = "dispatch" /\ CommandParse(command) = h

CallRadical == Dispatched("radical") /\ Return("radical", radical(input, pos))

CallRule == Dispatched("rule") /\ Return("rule", rule(input, pos))

CallVExtend == Dispatched("v_extend") /\ Return("v_extend", v_extend(input, pos))

CallColor == Dispatched("color") /\ Return("color", color(input, pos))

CallColorLit ==
    Dispatched("color_lit") /\ Return("color_lit", color_lit(input, pos, command.color))

CallFraction ==
    /\ Dispatched("fraction")
    /\ Return("fraction",
              fraction(input, pos, command.left_delimiter, command.right_delimiter,
                       command.bar_thickness, command.style))

CallDelimiterSize ==
    /\ Dispatched("delimiter_size")
    /\ Return("delimiter_size",
              delimiter_size(input, pos, command.size, command.atom_type))

CallKerning == Dispatched("kerning") /\ Return("kerning", kerning(input, pos, command.unit))

CallStyle == Dispatched("style") /\ Return("style", style(input, pos, command.style))

CallAtomChange ==
    Dispatched("atom_change") /\ Return("atom_change", atom_change(input, pos, command.at))

CallTextOperator ==
    /\ Dispatched("text_operator")
    /\ Return("text_operator", text_operator(input, pos, command.text, command.limits))

\* substack up to the loop: the opening brace is required and skipped.
SubstackEnter ==
    /\ Dispatched("substack")
    /\ handler' = "substack"
    /\ IF Current(input, pos) # "{"
       THEN /\ status' = "err"
            /\ error' = "StackMustFollowGroup"
            /\ pc' = "done"
            /\ UNCHANGED <<pos, lines>>
       ELSE /\ lines' = <<>>
            /\ pos' = LexNext(input, pos)
            /\ pc' = "loop"
            /\ UNCHANGED <<status, error>>
    /\ UNCHANGED <<command, input, node, parsed, sites, sceneVars>>

\* One iteration of substack's loop; on break, the rest of the function.
SubstackLoop ==
    /\ pc = "loop"
    /\ LET row == expression(input, pos)
           ls == Append(lines, row.value)
           next == substack_match(Current(input, row.pos))
       IN  /\ sites' = Append(sites, pos)
           /\ IF ~row.ok
              THEN /\ status' = "err"
                   /\ error' = row.err
                   /\ pos' = row.pos
                   /\ pc' = "done"
                   /\ UNCHANGED <<lines, node, parsed>>
              ELSE /\ parsed' = Append(parsed, row.value)
                   /\ CASE next = "break" ->
                             /\ lines' = substack_trim(ls)
                             /\ pos' = LexNext(input, row.pos)
                             /\ status' = "ok"
                             /\ node' = StackNode(command.atom_type, substack_trim(ls))
                             /\ pc' = "done"
                             /\ UNCHANGED error
                        [] next = "next" ->
                             /\ lines' = ls
                             /\ pos' = LexNext(input, row.pos)
                             /\ UNCHANGED <<status, node, error, pc>>
                        [] OTHER ->
                             /\ lines' = ls
                             /\ pos' = row.pos
                             /\ status' = "err"
                             /\ error' = next
                             /\ pc' = "done"
                             /\ UNCHANGED node
    /\ UNCHANGED <<command, input, handler, sceneVars>>

\* ------------------------------------------------------------------ scene
\* ColorU values: Paint::black() and the colors of bbox's roles.
Black == <<0, 0, 0, 255>>
RoleColor(role) ==
    CASE role = "Glyph" -> <<0, 200, 0, 255>>
      [] role = "HBox"  -> <<200, 0, 0, 255>>
      [] role = "VBox"  -> <<0, 0, 200, 255>>

\* Scene::push_paint: the PaintId of the paint in the scene's palette, which
\* holds each paint once; a PaintId is the paint's place in the palette.
PaintIdOf(sc, c) == CHOOSE i \in 1..Len(sc.paints) : sc.paints[i] = c
push_paint(sc, c) ==
    IF \E i \in 1..Len(sc.paints) : sc.paints[i] = c
    THEN [scene |-> sc, id |-> PaintIdOf(sc, c)]
    ELSE [scene |-> [sc EXCEPT !.paints = Append(@, c)], id |-> Len(sc.paints) + 1]

\* Scene::push_draw_path, the path reduced to the paint it is drawn with.
push_draw_path(sc, id) == [sc EXCEPT !.paths = Append(@, id)]

\* The fields of a SceneWrapper; panicked is set by a call that panics.
Wrapper(sc, stack, p) ==
    [scene |-> sc, color_stack |-> stack, paint |-> p, panicked |-> FALSE]

\* Scene::new()
NewScene == [paints |-> <<>>, paths |-> <<>>]

\* SceneWrapper::with_transform; the transform plays no part in the paints.
with_transform(sc) ==
    LET black == push_paint(sc, Black)
    IN  Wrapper(black.scene, <<>>, black.id)

\* SceneWrapper::new
new(sc) == with_transform(sc)

\* Backend::bbox
bbox(w, role) ==
    LET pushed == push_paint(w.scene, RoleColor(role))
    IN  [w EXCEPT !.scene = push_draw_path(pushed.scene, pushed.id)]

\* The glyph ids the font has a glyph for; font.glyph(..).unwrap() panics on
\* any other.
FontGlyphs == {"g"}

\* Backend::symbol
symbol_path(w, gid) ==
    IF gid \notin FontGlyphs THEN [w EXCEPT !.panicked = TRUE]
    ELSE [w EXCEPT !.scene = push_draw_path(w.scene, w.paint)]

\* Backend::rule
rule_path(w) == [w EXCEPT !.scene = push_draw_path(w.scene, w.paint)]

\* begin_color pushing the new paint instead of the current one.
begin_color_push_new(w, rgba) ==
    LET pushed == push_paint(w.scene, rgba)
    IN  [w EXCEPT !.color_stack = Append(@, pushed.id),
                  !.scene = pushed.scene,
                  !.paint = pushed.id]

\* Backend::begin_color
begin_color(w, rgba) ==
    LET pushed == push_paint(w.scene, rgba)
    IN  [w EXCEPT !.color_stack = Append(@, w.paint),
                  !.scene = pushed.scene,
                  !.paint = pushed.id]

\* Backend::end_color: pop().unwrap() panics on the empty stack.
end_color(w) ==
    IF w.color_stack = <<>> THEN [w EXCEPT !.panicked = TRUE]
    ELSE [w EXCEPT !.paint = Last(w.color_stack),
                   !.color_stack = Front(w.color_stack)]

\* ------------------------------------------------------------------ inputs
\* The tokens of the streams \substack is run on.
StackTokens == {"{", "}", RowSep, "a", "b"}

\* The token streams each command is run on.
Inputs(cmd) ==
    CASE cmd.variant \in {"Kerning", "Style", "TextOperator"} ->
            SeqsUpTo({"a", "{", "}"}, MaxIdleLen)
      [] cmd.variant = "DelimiterSize" ->
            SeqsUpTo({"(", ")", "=", "/", "a", "{"}, MaxIdleLen)
      [] cmd.variant = "SubStack" ->
            SeqsUpTo(StackTokens, MaxStackLen)
      [] cmd.variant = "Rule" ->
            SeqsUpTo({WhiteSpace, Number, "em", "zz", "a"}, MaxArgLen)
      [] cmd.variant = "VExtend" ->
            {s \o t : s \in {<<>>, <<"(">>, <<"{", "}">>, <<"{", "(">>, <<"{", "(", "}">>},
                      t \in SeqsUpTo({"{", "}", Number, "em"}, MaxArgLen)}
      [] cmd.variant = "Color" ->
            SeqsUpTo({"{", "}", "#f00", "a"}, MaxArgLen)
      [] OTHER ->
            SeqsUpTo({"{", "}", "a", "b", WhiteSpace}, MaxArgLen)

NoCommand == [variant |-> "None"]

Init ==
    /\ command = NoCommand
    /\ input = <<>>
    /\ pos = 1
    /\ pc = "idle"
    /\ lines = <<>>
    /\ status = "running"
    /\ node = NoNode
    /\ error = ""
    /\ handler = ""
    /\ parsed = <<>>
    /\ sites = <<>>
    /\ scene = new(NewScene).scene
    /\ color_stack = new(NewScene).color_stack
    /\ paint = new(NewScene).paint
    /\ rendering = "running"
    /\ calls = <<>>

\* The parser has looked a command of cmds up and calls Command::parse on it,
\* the lexer at the first token after the command.
InvokeOn(cmds) ==
    /\ pc = "idle"
    /\ \E c \in cmds :
         \E toks \in Inputs(c) :
            /\ command' = c
            /\ input' = toks
    /\ pc' = "dispatch"
    /\ UNCHANGED <<pos, lines, status, node, error, handler, parsed, sites, sceneVars>>

Invoke == InvokeOn(Table)

Next ==
    \/ Invoke
    \/ CallRadical
    \/ CallRule
    \/ CallVExtend
    \/ CallColor
    \/ CallColorLit
    \/ CallFraction
    \/ CallDelimiterSize
    \/ CallKerning
    \/ CallStyle
    \/ CallAtomChange
    \/ CallTextOperator
    \/ SubstackEnter
    \/ SubstackLoop

Spec == Init /\ [][Next]_vars

\* \substack alone, on a token stream that grows one token at a time until
\* the command is called.

LookupSubStack ==
    /\ pc = "idle"
    /\ command = NoCommand
    /\ command' = get_command("substack")
    /\ UNCHANGED <<input, pos, pc, lines, status, node, error, handler, parsed, sites, sceneVars>>

Feed ==
    /\ pc = "idle"
    /\ command.variant = "SubStack"
    /\ Len(input) < MaxFeedLen
    /\ \E t \in StackTokens : input' = Append(input, t)
    /\ UNCHANGED <<command, pos, pc, lines, status, node, error, handler, parsed, sites, sceneVars>>

CallSubStack ==
    /\ pc = "idle"
    /\ command.variant = "SubStack"
    /\ pc' = "dispatch"
    /\ UNCHANGED <<command, input, pos, lines, status, node, error, handler, parsed, sites, sceneVars>>

StackNext ==
    \/ LookupSubStack
    \/ Feed
    \/ CallSubStack
    \/ SubstackEnter
    \/ SubstackLoop

\* The parser is sequential code: a step that can be taken is taken.
StackSpec == Init /\ [][StackNext]_vars /\ WF_vars(StackNext)

\* ------------------------------------------------------------------ rendering
\* The colors begin_color is called with, the glyph ids symbol is called
\* with and the roles bbox is called with.
Colors == {Black, <<255, 0, 0, 255>>, <<0, 0, 255, 255>>}
GlyphIds == {"g", "missing"}
Roles == {"Glyph", "HBox"}

\* The renderer's call op on the SceneWrapper has left it as w.
Called(op, w) ==
    /\ scene' = w.scene
    /\ color_stack' = w.color_stack
    /\ paint' = w.paint
    /\ rendering' = IF w.panicked THEN "panic" ELSE "running"
    /\ calls' = Append(calls, [op |-> op, panicked |-> w.panicked,
                               paint_before |-> paint, paint_after |-> w.paint,
                               stack_before |-> color_stack,
                               stack_after |-> w.color_stack])
    /\ UNCHANGED parserVars

CanCall == rendering = "running" /\ Len(calls) < MaxCalls

Self == Wrapper(scene, color_stack, paint)

CallBBox == CanCall /\ \E role \in Roles : Called("bbox", bbox(Self, role))

CallSymbol == CanCall /\ \E gid \in GlyphIds : Called("symbol", symbol_path(Self, gid))

CallRulePath == CanCall /\ Called("rule", rule_path(Self))

CallBeginColor == CanCall /\ \E rgba \in Colors : Called("begin_color", begin_color(Self, rgba))

CallEndColor == CanCall /\ Called("end_color", end_color(Self))

SceneNext ==
    \/ CallBBox
    \/ CallSymbol
    \/ CallRulePath
    \/ CallBeginColor
    \/ CallEndColor

\* One SceneWrapper under the renderer's calls.
SceneSpec == Init /\ [][SceneNext]_vars

\* ------------------------------------------------------------------ claims
SubstackOk == handler = "substack" /\ status = "ok"

DropLastIfEmpty(rows) == IF rows # <<>> /\ Last(rows) = <<>> THEN Front(rows) ELSE rows

\* C1: the rows of the Stack returned by a successful \substack are the row
\* expressions parsed by the loop, in input order, with the last row removed
\* if and only if it is empty: at most one row is removed, an empty row that
\* is not last stays, and two trailing separators keep an empty row.
C1_RowsAreParsedRowsTrimmedOnce ==
    SubstackOk =>
        /\ node.type = "Stack"
        /\ Len(parsed) = Len(sites)
        /\ \A i \in 1..Len(parsed) : parsed[i] = expression(input, sites[i]).value
        /\ \A i \in 1..(Len(sites) - 1) : sites[i] < sites[i + 1]
        /\ node.lines = DropLastIfEmpty(parsed)
        /\ Len(parsed) - Len(node.lines) \in {0, 1}
        /\ Len(parsed) - Len(node.lines) = 1 <=> Last(parsed) = <<>>
        /\ \A i \in 1..(Len(parsed) - 1) : node.lines[i] = parsed[i]

\* \substack{a\\\\}: three rows parsed, the rows a and the empty row returned.
C1_Witness ==
    /\ SubstackOk
    /\ input = <<"{", "a", RowSep, RowSep, "}">>
    /\ Len(parsed) = 3
    /\ Len(node.lines) = 2
    /\ node.lines[2] = <<>>

\* C2 as stated: every Stack returned by a successful \substack has at least
\* one row, the immediately closed group included.
C2_RowsNeverEmpty == SubstackOk => node.lines # <<>>

\* C2 as amended: the Stack returned by a successful \substack has no rows
\* exactly when the loop parsed a single row and that row is empty, that is
\* when the opening brace is directly followed by the closing brace; in
\* every other case it has at least one row.
C2_RowsEmptyOnlyForEmptyGroup ==
    SubstackOk =>
        /\ node.lines = <<>> <=> parsed = << <<>> >>
        /\ node.lines = <<>> <=> Current(input, consume_whitespace(input, 2)) = "}"

\* \substack{\\}: two empty rows parsed, one empty row returned.
C2_Witness ==
    /\ SubstackOk
    /\ input = <<"{", RowSep, "}">>
    /\ node.lines = << <<>> >>

\* The size classes and atom classes of the delimiter-size commands.
SizeClasses == 1..4
DelimiterClasses == {"Open", "Close", "Relation", "Ordinal"}
DelimiterSizeOk == handler = "delimiter_size" /\ status = "ok"

\* C3 as stated: the node returned by a delimiter-size command carries the
\* size class: the same input under the same atom class and another size
\* class gives a different node.
C3_SizeClassRecoverable ==
    DelimiterSizeOk =>
        \A other \in SizeClasses \ {command.size} :
            delimiter_size(input, 1, other, command.atom_type).node # node

\* C4: a delimiter-size command fails, returning no node, whenever the
\* symbol that follows resolves to another AtomType than the command's class;
\* when it succeeds the node is that one symbol, of the command's class,
\* whatever the size class; the table holds the 16 commands.
C4_DelimiterClassChecked ==
    /\ {c \in Table : c.variant = "DelimiterSize"}
         = {DelimiterSize(n, at) : n \in SizeClasses, at \in DelimiterClasses}
    /\ (handler = "delimiter_size") =>
         LET cur == Current(input, 1)
         IN  /\ (cur \in SymbolChars /\ AtomTypeOf(cur) # command.atom_type)
                  => (status = "err" /\ node = NoNode)
             /\ status = "ok" =>
                  /\ cur \in SymbolChars
                  /\ node = SymbolNode(Symbol(Codepoint(cur), command.atom_type))
                  /\ AtomTypeOf(cur) = command.atom_type
                  /\ pos = 2

\* \bigl given a Relation-class symbol fails.
C4_Witness ==
    /\ handler = "delimiter_size"
    /\ command = DelimiterSize(1, "Open")
    /\ input = <<"=">>
    /\ status = "err"

\* C5 as stated: every handler ends by returning a node or a ParseError,
\* never abnormally; \rule returns an error when a dimension site does not
\* begin with a number.
C5_HandlersNeverPanic ==
    pc = "done" =>
        /\ status \in {"ok", "err"}
        /\ (handler = "rule" /\ dimension(input, Last(sites)).kind = "None")
             => status = "err"

\* C6: \substack fails, returning no node, exactly when (a) the current
\* token is not the opening brace (StackMustFollowGroup, lexer not advanced),
\* (b) a row expression fails (with that error), or (c) the token after a row
\* is neither the closing brace nor the row separator; a success ends just
\* after a closing brace.
C6_SubstackFailures ==
    (handler = "substack" /\ pc = "done") =>
        LET noGroup == Current(input, 1) # "{"
            row == expression(input, Last(sites))
            rowFails == ~noGroup /\ ~row.ok
            badEnd == ~noGroup /\ row.ok /\ Current(input, row.pos) \notin {"}", RowSep}
        IN  /\ noGroup => (status = "err" /\ error = "StackMustFollowGroup" /\ pos = 1
                           /\ sites = <<>>)
            /\ rowFails => (status = "err" /\ error = row.err)
            /\ badEnd => status = "err"
            /\ status = "err" <=> (noGroup \/ rowFails \/ badEnd)
            /\ status = "err" => node = NoNode
            /\ status = "ok" => (pos >= 3 /\ input[pos - 1] = "}")
            /\ (\A i \in 1..Len(input) : input[i] # "}") => status = "err"

\* An unterminated \substack{a fails at the end of input.
C6_Witness ==
    /\ handler = "substack"
    /\ input = <<"{", "a">>
    /\ status = "err"
    /\ error = "Todo"
    /\ pos = 3

\* The number of arguments the claim fixes for each variant; for SubStack the
\* one row that \substack{} parses.
FixedArity(variant) ==
    CASE variant \in {"Kerning", "Style", "TextOperator"}                    -> 0
      [] variant \in {"Radical", "ColorLit", "AtomChange", "DelimiterSize"}  -> 1
      [] variant \in {"Fraction", "Color", "Rule", "VExtend"}                -> 2
      [] variant = "SubStack"                                                -> 1

\* The row separators among the tokens the lexer has passed.
SeparatorsPassed == Cardinality({i \in 1..(pos - 1) : input[i] = RowSep})

\* What holds of every variant when its handler has returned: it is the one
\* handler Command::parse matches the variant to, the arguments are parsed
\* left to right, the three literal variants always succeed with the lexer
\* untouched, and a success returns one node.
DispatchFrame ==
    /\ handler = CommandParse(command)
    /\ command.variant \in {"Kerning", "Style", "TextOperator"} =>
         (status = "ok" /\ pos = 1 /\ sites = <<>>)
    /\ status = "ok" =>
         /\ node # NoNode
         /\ Len(sites) = Len(parsed)
         /\ \A i \in 1..(Len(sites) - 1) : sites[i] < sites[i + 1]
         /\ sites # <<>> => (sites[1] >= 1 /\ Last(sites) < pos)
    /\ status # "ok" => node = NoNode

\* C7 as stated: the number of arguments a successful handler parses is
\* fixed by the variant alone and lies between 0 and 2, SubStack included.
C7_ArityFixedByVariant ==
    (pc = "done" /\ status = "ok") =>
        /\ Len(parsed) = FixedArity(command.variant)
        /\ Len(parsed) \in 0..2

\* C7 as amended: as stated for every variant but SubStack; a successful
\* SubStack parses one row expression more than the row separators of its
\* group, a number of at least 1 that depends on the input.
C7_ArityFixedExceptSubStack ==
    pc = "done" =>
        /\ DispatchFrame
        /\ (status = "ok" /\ command.variant # "SubStack") =>
             Len(parsed) = FixedArity(command.variant)
        /\ (status = "ok" /\ command.variant = "SubStack") =>
             (Len(parsed) = 1 + SeparatorsPassed /\ Len(parsed) >= 1)

\* \substack{a\\\\b}: three row expressions parsed by one handler call.
C7_Witness ==
    /\ SubstackOk
    /\ input = <<"{", "a", RowSep, RowSep, "b", "}">>
    /\ Len(parsed) = 3
    /\ SeparatorsPassed = 2

LimSupText == <<"l", "i", "m", ",", "s", "u", "p">>
LimInfText == <<"l", "i", "m", ",", "i", "n", "f">>

\* C8: a TextOperator command returns an AtomChange forcing Operator with the
\* command's limits flag, whose inner list has one node per character of the
\* text, in order: a Kerning of 3/18 em for ',' and an Ordinal Symbol for any
\* other character; one Kerning for limsup and liminf, none for the others.
C8_TextOperatorShape ==
    (handler = "text_operator") =>
        LET text == command.text
            kerns == {i \in 1..Len(node.inner) : node.inner[i].type = "Kerning"}
            syms == {i \in 1..Len(node.inner) : node.inner[i].type = "Symbol"}
        IN  /\ status = "ok"
            /\ node.type = "AtomChange"
            /\ node.at = OperatorAT(command.limits)
            /\ Len(node.inner) = Len(text)
            /\ \A i \in 1..Len(text) :
                 IF text[i] = ","
                 THEN node.inner[i] = KerningNode(Em(3, 18))
                 ELSE /\ node.inner[i].type = "Symbol"
                      /\ node.inner[i].symbol.atom_type = "Ordinal"
                      /\ node.inner[i].symbol.codepoint = style_symbol(text[i])
            /\ Cardinality(syms) = Cardinality({i \in 1..Len(text) : text[i] # ","})
            /\ Cardinality(kerns) = Cardinality({i \in 1..Len(text) : text[i] = ","})
            /\ Cardinality(kerns) = IF text \in {LimSupText, LimInfText} THEN 1 ELSE 0
            /\ command \in {get_command("limsup"), get_command("liminf")}
                 <=> text \in {LimSupText, LimInfText}

\* \limsup: seven nodes, the fourth a kerning.
C8_Witness ==
    /\ handler = "text_operator"
    /\ command = get_command("limsup")
    /\ Len(node.inner) = 7
    /\ node.inner[4].type = "Kerning"
    /\ node.at = "Operator(true)"

\* The literals of the six fraction commands: delimiters, bar, style.
FractionLiterals(name) ==
    CASE name = "frac"   -> <<<<>>, <<>>, "Default", "NoChange">>
      [] name = "tfrac"  -> <<<<>>, <<>>, "Default", "Text">>
      [] name = "dfrac"  -> <<<<>>, <<>>, "Default", "Display">>
      [] name = "binom"  -> <<<<Symbol(<<"(">>, "Open")>>, <<Symbol(<<")">>, "Close")>>,
                              "None", "NoChange">>
      [] name = "tbinom" -> <<<<Symbol(<<"(">>, "Open")>>, <<Symbol(<<")">>, "Close")>>,
                              "None", "Text">>
      [] name = "dbinom" -> <<<<Symbol(<<"(">>, "Open")>>, <<Symbol(<<")">>, "Close")>>,
                              "None", "Display">>
FractionNames == {"frac", "tfrac", "dfrac", "binom", "tbinom", "dbinom"}

\* C9: a fraction command that succeeds returns a GenFraction whose numerator
\* is the first required argument, whose denominator is the second, and
\* whose delimiters, bar thickness and style are the command's literals; when
\* the numerator fails the denominator is not parsed and that error returns.
C9_FractionShape ==
    /\ {c \in Table : c.variant = "Fraction"} = {get_command(n) : n \in FractionNames}
    /\ (handler = "fraction") =>
         LET first == required_argument(input, 1)
             second == required_argument(input, first.pos)
         IN  /\ \E n \in FractionNames :
                  /\ command = get_command(n)
                  /\ status = "ok" =>
                       /\ node.type = "GenFraction"
                       /\ <<node.left_delimiter, node.right_delimiter,
                            node.bar_thickness, node.style>> = FractionLiterals(n)
             /\ status = "ok" =>
                  /\ first.ok /\ second.ok
                  /\ node.numerator = first.value
                  /\ node.denominator = second.value
                  /\ sites = <<1, first.pos>>
                  /\ pos = second.pos
             /\ ~first.ok => (status = "err" /\ error = first.err /\ sites = <<1>>
                              /\ parsed = <<>>)
             /\ (first.ok /\ ~second.ok) => (status = "err" /\ error = second.err)

\* \binom a{b}: numerator a, denominator b, parenthesis delimiters, no bar.
C9_Witness ==
    /\ handler = "fraction"
    /\ status = "ok"
    /\ command = get_command("binom")
    /\ input = <<"a", "{", "b", "}">>
    /\ node.numerator # node.denominator
    /\ node.bar_thickness = "None"

\* The numerator fails, so the denominator is never parsed.
C9_WitnessNumeratorFails ==
    /\ handler = "fraction"
    /\ status = "err"
    /\ input = <<"}", "a">>
    /\ sites = <<1>>

\* One iteration of substack's loop ends the handler or passes a separator;
\* at the end of input it ends the handler with an error.
LoopProgress ==
    SubstackLoop =>
        /\ \/ pc' = "done"
           \/ /\ pc' = "loop"
              /\ pos' > pos
              /\ pos' <= Len(input) + 1
              /\ input[pos' - 1] = RowSep
        /\ Current(input, pos) = EOF => (pc' = "done" /\ status' = "err")

\* A successful substack leaves the lexer just after the closing brace that
\* ended the loop.
SubstackEndsAfterBrace ==
    SubstackOk =>
        LET row == expression(input, Last(sites))
        IN  /\ Current(input, row.pos) = "}"
            /\ pos = row.pos + 1

\* C10: \substack terminates on every finite token stream: each iteration of
\* the loop exits, fails or consumes a row separator, the end of input is an
\* error, and on success the lexer is just after the closing brace that ended
\* the loop.
C10_SubstackTerminates ==
    /\ [][LoopProgress]_vars
    /\ [](SubstackEndsAfterBrace)
    /\ <>(pc = "done")

\* \substack{a\\b} finished after two iterations.
C10_Witness ==
    /\ SubstackOk
    /\ input = <<"{", "a", RowSep, "b", "}">>
    /\ pos = 6
    /\ Len(sites) = 2

\* The begin_color and end_color calls among the first k calls, and the
\* begin_color calls not yet matched after them.
Begins(k) == Cardinality({i \in 1..k : calls[i].op = "begin_color"})
Ends(k) == Cardinality({i \in 1..k : calls[i].op = "end_color"})
Open(k) == Begins(k) - Ends(k)

\* No prefix of the calls holds more end_color than begin_color calls.
ColorsBalanced == \A k \in 1..Len(calls) : Ends(k) <= Begins(k)

\* The begin_color call that the end_color call j matches: the last one
\* before j made at the nesting depth j returns to.
MatchingBegin(j) ==
    CHOOSE i \in 1..(j - 1) :
        /\ calls[i].op = "begin_color"
        /\ Open(i - 1) = Open(j)
        /\ \A m \in (i + 1)..(j - 1) :
             ~(calls[m].op = "begin_color" /\ Open(m - 1) = Open(j))

InitialPaint == new(NewScene).paint

\* C11: over calls in which no prefix holds more end_color than begin_color,
\* the length of color_stack is the number of begin_color calls not yet
\* matched, every end_color restores paint to its value just before the
\* matching begin_color, a fully balanced sequence ends with the initial paint
\* and an empty color_stack, and symbol, rule and bbox change neither paint
\* nor color_stack.
C11_ColorStackBalanced ==
    /\ ColorsBalanced =>
         /\ \A k \in 1..Len(calls) :
              calls[k].op = "end_color" => ~calls[k].panicked
         /\ Len(color_stack) = Open(Len(calls))
         /\ \A j \in 1..Len(calls) :
              calls[j].op = "end_color" =>
                  /\ calls[j].paint_after = calls[MatchingBegin(j)].paint_before
                  /\ calls[j].stack_after = calls[MatchingBegin(j)].stack_before
         /\ Open(Len(calls)) = 0 => (paint = InitialPaint /\ color_stack = <<>>)
    /\ \A k \in 1..Len(calls) :
         calls[k].op \in {"symbol", "rule", "bbox"} =>
             /\ calls[k].paint_after = calls[k].paint_before
             /\ calls[k].stack_after = calls[k].stack_before

\* begin red, begin blue, symbol, end, end: the first end_color restores
\* red, the second the initial paint.
C11_Witness ==
    /\ Len(calls) = 5
    /\ <<calls[1].op, calls[2].op, calls[3].op, calls[4].op, calls[5].op>>
         = <<"begin_color", "begin_color", "symbol", "end_color", "end_color">>
    /\ rendering = "running"
    /\ calls[4].paint_after = calls[1].paint_after
    /\ calls[4].paint_after # InitialPaint
    /\ calls[2].paint_after # calls[1].paint_after
    /\ paint = InitialPaint
    /\ color_stack = <<>>

====
